---- MODULE Spec2Model ----
(***************************************************************************)
(* Model of the streaming ASR clients (src/streaming_client.py, main.py).  *)
(*                                                                         *)
(* Three threads share one WebSocketApp `ws` and one threading.Event       *)
(* `finish_event`:                                                         *)
(*   - the main thread (main, lines 325-393),                              *)
(*   - the receive thread (ws.run_forever, started at line 371), which     *)
(*     connects and then runs the callbacks on_open / on_message /         *)
(*     on_close,                                                           *)
(*   - the send thread (record_and_send or read_and_send, started at       *)
(*     line 387).                                                          *)
(* The peer and the user (Ctrl-C) are the environment.                     *)
(*                                                                         *)
(* Every action is one step of one thread between two points where the     *)
(* other threads can interleave (a blocking call, a sleep, a send).        *)
(*                                                                         *)
(* The transport (websocket-client's WebSocketApp) is modelled by what the *)
(* client code relies on: run_forever sets keep_running, creates the       *)
(* socket, connects, calls on_open, dispatches messages while keep_running *)
(* and the socket is open, and calls on_close on teardown; close() clears  *)
(* keep_running and closes the socket if there is one; a send on a socket  *)
(* that is not open raises WebSocketConnectionClosedException.             *)
(*                                                                         *)
(* The asyncio client (src/main.py) is modelled in the same variables, its *)
(* three coroutines taking the places of the three threads; `program`      *)
(* tells which client runs. The chunking of a segment's bytes, which both  *)
(* clients share, is followed byte by byte in a specification of its own.  *)
(***************************************************************************)
EXTENDS Integers, Sequences, FiniteSets, TLC

\* ------------------------------------------------------------------ bounds
\* Most SpeechSegments an snsd input declares for channel 0.
MaxSegs == 2
\* Most 100 ms chunks in one segment.
MaxChunks == 2
\* Most frames the microphone delivers before the model stops the capture.
MaxFrames == 2
\* Most inbound messages the peer sends.
MaxMsgs == 2
\* Most bytes in one segment's buffer when the chunking is followed byte by byte.
MaxBytes == 9
\* Latest segment boundary, in ms, when the byte offsets are computed.
MaxMs == 12

\* --sample-rate: default 16000
DefaultSampleRate == 16000

VARIABLES
    program,           \* which client runs: "streaming_client" or "main" (main.py)
    sample_rate,       \* args.sample_rate
    source,            \* args.file: "mic" (empty), "file" (valid path), "invalid"
    base64,            \* args.base64
    single_utterance,  \* args.single_utterance
    segments,          \* read_snsd_json(args.snsd)["0"]: chunk count of each segment
    cli_request_id,    \* --request-id as handle_args parses it ("" when not given)
    cli_encoding,      \* --encoding as handle_args parses it
    audios,            \* read_and_send's `audios`: the chunk count of each segment
    mainPc,            \* position of the main thread
    recvPc,            \* position of the receive thread (ws.run_forever)
    sendPc,            \* position of the send thread
    keep_running,      \* ws.keep_running
    conn,              \* ws.sock and the connection behind it
    finish_event,      \* threading.Event finish_event
    setCount,          \* how many times finish_event.set() was called
    sent,              \* the messages the peer was sent, in order
    audio_buffer,      \* record_and_send's audio_buffer (frame numbers)
    wavfiles,          \* one entry per wavfile.write: name, sample format, frames
    encoding,          \* args.encoding of main's args object (the send thread's)
    warned,            \* record_and_send logged the f64 warning (line 151)
    seg,               \* read_and_send: index of the segment being streamed
    idx,               \* read_and_send: chunks of the segment sent so far
    printed,           \* the inbound messages on_message decoded and printed
    errors,            \* how many inbound messages on_message failed to decode
    received,          \* well-formedness of every inbound message, in arrival order
    interrupted,       \* the user's Ctrl-C: "none", "handled", "uncaught"
    audio,             \* read_and_send: the bytes of the segment being chunked
    chunk_size,        \* read_and_send: chunk_size
    chunk_i,           \* read_and_send: i of range(0, len(audio), chunk_size)
    chunks_out,        \* the chunks sent for the segment, in send order
    start_time_ms,     \* read_and_send: segment[0] of the segment being sliced
    end_time_ms,       \* read_and_send: segment[1]
    idx_start,         \* read_and_send: idx_start
    idx_end            \* read_and_send: idx_end

vars == <<start_time_ms, end_time_ms, idx_start, idx_end, program, sample_rate, audio, chunk_size, chunk_i, chunks_out, source, base64, single_utterance, segments, cli_request_id, cli_encoding,
          audios, mainPc, recvPc, sendPc, keep_running, conn, finish_event,
          setCount, sent, audio_buffer, wavfiles, encoding, warned, seg, idx,
          printed, errors, received, interrupted>>

argVars == <<program, sample_rate, source, base64, single_utterance, segments, cli_request_id, cli_encoding>>
inVars == <<printed, errors, received>>
micVars == <<audio_buffer, wavfiles, encoding, warned>>
fileVars == <<audios, seg, idx>>
chunkVars == <<audio, chunk_size, chunk_i, chunks_out>>
offsetVars == <<start_time_ms, end_time_ms, idx_start, idx_end>>

\* ----------------------------------------------------------------- messages
\* --encoding choices of handle_args
Encodings == {"s16", "s32", "f32", "f64"}

\* lines 350-353: the global request_id is the caller's, or a fresh uuid4 when
\* the caller gave none; main stores it in its args.request_id as well.
request_id == IF cli_request_id # "" THEN cli_request_id ELSE "uuid4"

\* asr_start_message(args), lines 103-123. on_open builds it from the
\* arguments it parses again (line 218), read_and_send from main's args
\* object; the request_id key is set, from args.request_id, whenever the
\* global request_id is not empty (line 121).
StartMsg(by) ==
    [kind |-> "start", by |-> by, seg |-> 0, idx |-> 0, b64 |-> FALSE,
     encoding |-> IF by = "on_open" THEN cli_encoding ELSE encoding,
     request_id |-> IF request_id # ""
                    THEN (IF by = "on_open" THEN cli_request_id ELSE request_id)
                    ELSE "absent"]

StopMsg == [kind |-> "stop", by |-> "send", seg |-> 0, idx |-> 0, b64 |-> FALSE,
            encoding |-> "", request_id |-> ""]

\* An audio message: chunk i of segment s (frame i of the capture when s = 0),
\* in the sample format the send thread's args.encoding names.
AudioMsg(s, i) == [kind |-> "audio", by |-> "send", seg |-> s, idx |-> i, b64 |-> base64,
                   encoding |-> encoding, request_id |-> ""]

\* Inbound messages: ok is whether the text is well-formed JSON.
InMsgs == [ok : BOOLEAN, is_partial : BOOLEAN]

\* All sequences over S of length at most n.
SeqUpTo(S, n) == UNION {[1..k -> S] : k \in 0..n}

\* read_and_send, lines 275-293: `audios` is the one whole-file segment when the
\* snsd input has no active segment for channel 0, else one slice per segment.
\* A segment is represented by its number of 100 ms chunks; the decoded file
\* holds MaxChunks chunks.
AudiosOf(segs) == IF Len(segs) = 0 THEN <<MaxChunks>> ELSE segs

\* The chunking of one segment is followed byte by byte on its own (ChunkSpec
\* below); in the session model a segment is a number of chunks.
ChunkIdle ==
    /\ audio = <<>>
    /\ chunk_size = 0
    /\ chunk_i = 0
    /\ chunks_out = <<>>

\* The byte offsets of one segment are computed on their own (OffsetSpec
\* below).
OffsetIdle ==
    /\ start_time_ms = 0
    /\ end_time_ms = 0
    /\ idx_start = 0
    /\ idx_end = 0

Init ==
    /\ program = "streaming_client"
    /\ sample_rate = DefaultSampleRate
    /\ ChunkIdle
    /\ OffsetIdle
    /\ source \in {"mic", "file", "invalid"}
    /\ base64 \in BOOLEAN
    /\ single_utterance \in BOOLEAN
    /\ segments \in IF source = "file"
                    THEN SeqUpTo(0..MaxChunks, MaxSegs)
                    ELSE {<<>>}
    /\ cli_request_id \in {"", "rid"}
    /\ cli_encoding \in Encodings
    /\ encoding = cli_encoding
    /\ warned = FALSE
    /\ received = <<>>
    /\ audios = <<>>
    /\ mainPc = "start_recv"
    /\ recvPc = "idle"
    /\ sendPc = "idle"
    /\ keep_running = FALSE
    /\ conn = "none"
    /\ finish_event = FALSE
    /\ setCount = 0
    /\ sent = <<>>
    /\ audio_buffer = <<>>
    /\ wavfiles = <<>>
    /\ seg = 0
    /\ idx = 0
    /\ printed = <<>>
    /\ errors = 0
    /\ interrupted = "none"

\* ------------------------------------------------------------ shared pieces
\* WebSocketApp.close(): keep_running is cleared and the socket, if there is
\* one, is closed. Before run_forever has created the socket it closes nothing.
WsClose ==
    /\ keep_running' = FALSE
    /\ conn' = IF conn \in {"connecting", "open"} THEN "closed_local" ELSE conn

\* finish_event.set()
SetFinish ==
    /\ finish_event' = TRUE
    /\ setCount' = setCount + 1

\* ws.send / ws.send_text / ws.send_bytes succeed only on an open connection;
\* otherwise they raise WebSocketConnectionClosedException.
CanSend == conn = "open"

Send(m) == sent' = Append(sent, m)

\* ------------------------------------------------------------- main thread
\* lines 370-371: receive_thread = Thread(target=ws.run_forever); start()
MainStartRecv ==
    /\ mainPc = "start_recv"
    /\ mainPc' = "select"
    /\ recvPc' = "run"
    /\ UNCHANGED <<argVars, offsetVars, chunkVars, sendPc, keep_running, conn, finish_event, setCount,
                   sent, micVars, fileVars, inVars, interrupted>>

\* lines 373-386: choose the send thread's target, or reject the file path
MainSelect ==
    /\ mainPc = "select"
    /\ mainPc' = IF source = "invalid" THEN "close_invalid" ELSE "start_send"
    /\ UNCHANGED <<argVars, offsetVars, chunkVars, recvPc, sendPc, keep_running, conn, finish_event,
                   setCount, sent, micVars, fileVars, inVars, interrupted>>

\* lines 384-386: logger.critical; ws.close(); exit(-1)
MainCloseInvalid ==
    /\ mainPc = "close_invalid"
    /\ WsClose
    /\ mainPc' = "exit"
    /\ UNCHANGED <<argVars, offsetVars, chunkVars, recvPc, sendPc, finish_event, setCount, sent,
                   micVars, fileVars, inVars, interrupted>>

\* line 387: send_thread.start()
MainStartSend ==
    /\ mainPc = "start_send"
    /\ mainPc' = "join"
    /\ sendPc' = IF source = "mic" THEN "rec_open" ELSE "rs_decode"
    /\ UNCHANGED <<argVars, offsetVars, chunkVars, recvPc, keep_running, conn, finish_event, setCount,
                   sent, micVars, fileVars, inVars, interrupted>>

\* line 390: receive_thread.join() returns once run_forever has returned
MainJoin ==
    /\ mainPc = "join"
    /\ recvPc = "done"
    /\ mainPc' = "done"
    /\ UNCHANGED <<argVars, offsetVars, chunkVars, recvPc, sendPc, keep_running, conn, finish_event,
                   setCount, sent, micVars, fileVars, inVars, interrupted>>

\* The user presses Ctrl-C: KeyboardInterrupt is raised in the main thread.
\* Only the join of line 390 is inside the try of lines 389-393; anywhere else
\* the exception leaves main() (the handlers of lines 406 and 417 do not catch
\* it) and the main thread ends while the other threads go on.
Interrupt ==
    /\ interrupted = "none"
    /\ mainPc \notin {"done", "exit", "killed"}
    /\ IF mainPc = "join"
       THEN mainPc' = "int_set" /\ interrupted' = "handled"
       ELSE mainPc' = "killed" /\ interrupted' = "uncaught"
    /\ UNCHANGED <<argVars, offsetVars, chunkVars, recvPc, sendPc, keep_running, conn, finish_event,
                   setCount, sent, micVars, fileVars, inVars>>

\* line 392: finish_event.set()
MainIntSet ==
    /\ mainPc = "int_set"
    /\ SetFinish
    /\ mainPc' = "int_close"
    /\ UNCHANGED <<argVars, offsetVars, chunkVars, recvPc, sendPc, keep_running, conn, sent, micVars,
                   fileVars, inVars, interrupted>>

\* line 393: ws.close()
MainIntClose ==
    /\ mainPc = "int_close"
    /\ WsClose
    /\ mainPc' = "done"
    /\ UNCHANGED <<argVars, offsetVars, chunkVars, recvPc, sendPc, finish_event, setCount, sent,
                   micVars, fileVars, inVars, interrupted>>

MainNext ==
    \/ MainStartRecv
    \/ MainSelect
    \/ MainCloseInvalid
    \/ MainStartSend
    \/ MainJoin
    \/ MainIntSet
    \/ MainIntClose

\* ---------------------------------------------------------- receive thread
\* ws.run_forever (the thread of lines 370-371) begins: keep_running = True
RunForever ==
    /\ recvPc = "run"
    /\ keep_running' = TRUE
    /\ recvPc' = "setsock"
    /\ UNCHANGED <<argVars, offsetVars, chunkVars, mainPc, sendPc, conn, finish_event, setCount, sent,
                   micVars, fileVars, inVars, interrupted>>

\* run_forever creates the socket object of the WebSocketApp of lines 363-369
SetSock ==
    /\ recvPc = "setsock"
    /\ conn' = "connecting"
    /\ recvPc' = "connect"
    /\ UNCHANGED <<argVars, offsetVars, chunkVars, mainPc, sendPc, keep_running, finish_event, setCount,
                   sent, micVars, fileVars, inVars, interrupted>>

\* run_forever connects to the url of lines 356-361: the handshake succeeds,
\* or fails (bad URL, network unreachable), or the socket was closed meanwhile
Connect ==
    /\ recvPc = "connect"
    /\ \/ /\ conn = "connecting"
          /\ conn' = "open"
          /\ recvPc' = "on_open"
       \/ /\ conn = "connecting"
          /\ conn' = "failed"
          /\ recvPc' = "teardown"
       \/ /\ conn # "connecting"
          /\ conn' = conn
          /\ recvPc' = "teardown"
    /\ UNCHANGED <<argVars, offsetVars, chunkVars, mainPc, sendPc, keep_running, finish_event, setCount,
                   sent, micVars, fileVars, inVars, interrupted>>

\* lines 217-220: on_open sends the start message; if the connection is closed
\* by then the send raises inside the callback and run_forever goes on
OnOpen ==
    /\ recvPc = "on_open"
    /\ IF CanSend THEN Send(StartMsg("on_open")) ELSE sent' = sent
    /\ recvPc' = "loop"
    /\ UNCHANGED <<argVars, offsetVars, chunkVars, mainPc, sendPc, keep_running, conn, finish_event,
                   setCount, micVars, fileVars, inVars, interrupted>>

\* A faulty on_message without the try/except of lines 200-204: the decode
\* error of a malformed message ends the dispatch loop.
OnMessage_Raises(m) ==
    /\ recvPc = "loop"
    /\ keep_running
    /\ conn = "open"
    /\ Len(printed) + errors < MaxMsgs
    /\ IF m.ok
       THEN printed' = Append(printed, m) /\ errors' = errors /\ recvPc' = recvPc
       ELSE printed' = printed /\ errors' = errors + 1 /\ recvPc' = "teardown"
    /\ received' = Append(received, m.ok)
    /\ UNCHANGED <<argVars, offsetVars, chunkVars, mainPc, sendPc, keep_running, conn,
                   finish_event, setCount, sent, micVars, fileVars, interrupted>>

\* lines 199-204: on_message decodes and prints one inbound message; a
\* malformed one is logged as an error
OnMessage(m) ==
    /\ recvPc = "loop"
    /\ keep_running
    /\ conn = "open"
    /\ Len(printed) + errors < MaxMsgs
    /\ IF m.ok
       THEN printed' = Append(printed, m) /\ errors' = errors
       ELSE printed' = printed /\ errors' = errors + 1
    /\ received' = Append(received, m.ok)
    /\ UNCHANGED <<argVars, offsetVars, chunkVars, mainPc, recvPc, sendPc, keep_running, conn,
                   finish_event, setCount, sent, micVars, fileVars, interrupted>>

\* run_forever leaves its dispatch loop when keep_running is cleared or the
\* socket is no longer open, and tears the connection down
Teardown ==
    /\ recvPc = "loop"
    /\ ~keep_running \/ conn # "open"
    /\ WsClose
    /\ recvPc' = "teardown"
    /\ UNCHANGED <<argVars, offsetVars, chunkVars, mainPc, sendPc, finish_event, setCount, sent,
                   micVars, fileVars, inVars, interrupted>>

\* A faulty on_close that clears finish_event instead of setting it.
OnClose_Clears ==
    /\ recvPc = "teardown"
    /\ finish_event' = FALSE
    /\ setCount' = setCount
    /\ recvPc' = "done"
    /\ UNCHANGED <<argVars, offsetVars, chunkVars, mainPc, sendPc, keep_running, conn, sent, micVars,
                   fileVars, inVars, interrupted>>

\* lines 207-210: on_close, the last callback of run_forever
OnClose ==
    /\ recvPc = "teardown"
    /\ SetFinish
    /\ recvPc' = "done"
    /\ UNCHANGED <<argVars, offsetVars, chunkVars, mainPc, sendPc, keep_running, conn, sent, micVars,
                   fileVars, inVars, interrupted>>

RecvNext ==
    \/ RunForever
    \/ SetSock
    \/ Connect
    \/ OnOpen
    \/ Teardown
    \/ OnClose

\* The peer closes the connection.
PeerClose ==
    /\ conn = "open"
    /\ conn' = "closed_peer"
    /\ UNCHANGED <<argVars, offsetVars, chunkVars, mainPc, recvPc, sendPc, keep_running, finish_event,
                   setCount, sent, micVars, fileVars, inVars, interrupted>>

\* ------------------------------------------- send thread: record_and_send
\* lines 179-189: the file record_and_send writes: "./" + args.request_id +
\* ".wav", the joined frames read with the dtype chosen from args.encoding
\* (float32 in the else branch).
WavFile ==
    [name |-> request_id,
     dtype |-> IF encoding \in {"s16", "s32", "f32"} THEN encoding ELSE "f32",
     frames |-> audio_buffer]

\* A faulty record_and_send that captures in the format asked for, f64 too.
RecordOpen_NoDowngrade ==
    /\ sendPc = "rec_open"
    /\ sendPc' \in {"rec_check", "crashed"}
    /\ UNCHANGED <<argVars, offsetVars, chunkVars, mainPc, recvPc, keep_running, conn, finish_event,
                   setCount, sent, micVars, fileVars, inVars, interrupted>>

\* lines 143-163: choose the capture format and open the input stream; opening
\* the device can raise OSError, which ends the thread before the try
RecordOpen ==
    /\ sendPc = "rec_open"
    /\ sendPc' \in {"rec_check", "crashed"}
    /\ IF encoding \in {"s16", "s32", "f32"}
       THEN encoding' = encoding /\ warned' = warned
       ELSE encoding' = "f32" /\ warned' = TRUE
    /\ UNCHANGED <<argVars, offsetVars, chunkVars, mainPc, recvPc, keep_running, conn, finish_event,
                   setCount, sent, audio_buffer, wavfiles, fileVars, inVars,
                   interrupted>>

\* A faulty record_and_send whose save sits in the except clause instead of
\* the finally: leaving the loop through finish_event skips the save.
RecordCheck_SkipSave ==
    /\ sendPc = "rec_check"
    /\ finish_event \/ Len(audio_buffer) < MaxFrames
    /\ sendPc' = IF finish_event THEN "rec_set" ELSE "rec_read"
    /\ UNCHANGED <<argVars, offsetVars, chunkVars, mainPc, recvPc, keep_running, conn, finish_event,
                   setCount, sent, micVars, fileVars, inVars, interrupted>>

\* line 168: while not finish_event.is_set(). The capture never ends by
\* itself; the model stops asking for frames after MaxFrames of them.
RecordCheck ==
    /\ sendPc = "rec_check"
    /\ finish_event \/ Len(audio_buffer) < MaxFrames
    /\ sendPc' = IF finish_event THEN "rec_save" ELSE "rec_read"
    /\ UNCHANGED <<argVars, offsetVars, chunkVars, mainPc, recvPc, keep_running, conn, finish_event,
                   setCount, sent, micVars, fileVars, inVars, interrupted>>

\* lines 169-170: data = stream.read(...); audio_buffer.append(data)
RecordRead ==
    /\ sendPc = "rec_read"
    /\ audio_buffer' = Append(audio_buffer, Len(audio_buffer) + 1)
    /\ sendPc' = "rec_send"
    /\ UNCHANGED <<argVars, offsetVars, chunkVars, mainPc, recvPc, keep_running, conn, finish_event,
                   setCount, sent, wavfiles, encoding, warned, fileVars, inVars,
                   interrupted>>

\* A faulty record_and_send that saves the audio in the except clause as well
\* as in the finally.
RecordSend_SaveInExcept ==
    /\ sendPc = "rec_send"
    /\ IF CanSend
       THEN Send(AudioMsg(0, Len(audio_buffer))) /\ sendPc' = "rec_check"
                /\ wavfiles' = wavfiles
       ELSE sent' = sent /\ sendPc' = "rec_save"
                /\ wavfiles' = Append(wavfiles, WavFile)
    /\ UNCHANGED <<argVars, offsetVars, chunkVars, mainPc, recvPc, keep_running, conn, finish_event,
                   setCount, audio_buffer, encoding, warned, fileVars, inVars,
                   interrupted>>

\* lines 171-174: send the frame, as base64 text or as bytes; lines 175-176:
\* WebSocketConnectionClosedException ends the loop
RecordSend ==
    /\ sendPc = "rec_send"
    /\ IF CanSend
       THEN Send(AudioMsg(0, Len(audio_buffer))) /\ sendPc' = "rec_check"
       ELSE sent' = sent /\ sendPc' = "rec_save"
    /\ UNCHANGED <<argVars, offsetVars, chunkVars, mainPc, recvPc, keep_running, conn, finish_event,
                   setCount, micVars, fileVars, inVars, interrupted>>

\* A faulty record_and_send that writes the frames without the one read last.
RecordSave_DropLast ==
    /\ sendPc = "rec_save"
    /\ wavfiles' = Append(wavfiles,
          [WavFile EXCEPT !.frames = SubSeq(audio_buffer, 1, Len(audio_buffer) - 1)])
    /\ sendPc' = "rec_set"
    /\ UNCHANGED <<argVars, offsetVars, chunkVars, mainPc, recvPc, keep_running, conn, finish_event,
                   setCount, sent, audio_buffer, encoding, warned, fileVars,
                   inVars, interrupted>>

\* lines 178-190 (finally): write the captured frames to <request_id>.wav
RecordSave ==
    /\ sendPc = "rec_save"
    /\ wavfiles' = Append(wavfiles, WavFile)
    /\ sendPc' = "rec_set"
    /\ UNCHANGED <<argVars, offsetVars, chunkVars, mainPc, recvPc, keep_running, conn, finish_event,
                   setCount, sent, audio_buffer, encoding, warned, fileVars,
                   inVars, interrupted>>

\* line 192 (finally): finish_event.set()
RecordSet ==
    /\ sendPc = "rec_set"
    /\ SetFinish
    /\ sendPc' = "rec_close"
    /\ UNCHANGED <<argVars, offsetVars, chunkVars, mainPc, recvPc, keep_running, conn, sent, micVars,
                   fileVars, inVars, interrupted>>

\* lines 193-196 (finally): stop the stream; ws.close()
RecordClose ==
    /\ sendPc = "rec_close"
    /\ WsClose
    /\ sendPc' = "done"
    /\ UNCHANGED <<argVars, offsetVars, chunkVars, mainPc, recvPc, finish_event, setCount, sent,
                   micVars, fileVars, inVars, interrupted>>

RecordNext ==
    \/ RecordOpen
    \/ RecordCheck
    \/ RecordRead
    \/ RecordSend
    \/ RecordSave
    \/ RecordSet
    \/ RecordClose

\* --------------------------------------------- send thread: read_and_send
\* After the body of the `for audio ... in audios` loop of line 297: the next
\* segment, or line 320 after the last one.
AfterSegment == IF seg < Len(audios) THEN "rs_chunk" ELSE "rs_close"

\* lines 258-296: read the snsd segments, probe and decode the file, slice it
\* into `audios`. ffmpeg.probe (line 260, outside the try) can raise, which
\* ends the thread; a decode error inside the try is logged (lines 321-322).
ReadDecode ==
    /\ sendPc = "rs_decode"
    /\ \/ /\ audios' = AudiosOf(segments)
          /\ seg' = 1
          /\ idx' = 0
          /\ sendPc' = "rs_chunk"
       \/ /\ sendPc' \in {"crashed", "decode_failed"}
          /\ UNCHANGED <<audios, seg, idx>>
    /\ UNCHANGED <<argVars, offsetVars, chunkVars, mainPc, recvPc, keep_running, conn, finish_event,
                   setCount, sent, micVars, inVars, interrupted>>

\* lines 304-306 / 310-312: the next chunk of the segment, if any, and the
\* check of finish_event before it is sent
ReadChunkCheck ==
    /\ sendPc = "rs_chunk"
    /\ sendPc' = IF idx < audios[seg] /\ ~finish_event THEN "rs_send" ELSE "rs_stop_check"
    /\ UNCHANGED <<argVars, offsetVars, chunkVars, mainPc, recvPc, keep_running, conn, finish_event,
                   setCount, sent, micVars, fileVars, inVars, interrupted>>

\* lines 307 / 313: send the chunk; a closed connection raises, and
\* read_and_send catches only ffmpeg.Error
ReadChunkSend ==
    /\ sendPc = "rs_send"
    /\ IF CanSend
       THEN Send(AudioMsg(seg, idx + 1)) /\ idx' = idx + 1 /\ sendPc' = "rs_sleep"
       ELSE sent' = sent /\ idx' = idx /\ sendPc' = "crashed"
    /\ UNCHANGED <<argVars, offsetVars, chunkVars, mainPc, recvPc, keep_running, conn, finish_event,
                   setCount, micVars, audios, seg, inVars, interrupted>>

\* lines 308 / 314: time.sleep(seconds)
ReadChunkSleep ==
    /\ sendPc = "rs_sleep"
    /\ sendPc' = "rs_chunk"
    /\ UNCHANGED <<argVars, offsetVars, chunkVars, mainPc, recvPc, keep_running, conn, finish_event,
                   setCount, sent, micVars, fileVars, inVars, interrupted>>

\* line 316: if not finish_event.is_set(); when it is set the for loop goes on
\* to the next segment
ReadStopCheck ==
    /\ sendPc = "rs_stop_check"
    /\ IF finish_event
       THEN /\ sendPc' = AfterSegment
            /\ seg' = IF seg < Len(audios) THEN seg + 1 ELSE seg
            /\ idx' = IF seg < Len(audios) THEN 0 ELSE idx
       ELSE /\ sendPc' = "rs_stop"
            /\ UNCHANGED <<seg, idx>>
    /\ UNCHANGED <<argVars, offsetVars, chunkVars, mainPc, recvPc, keep_running, conn, finish_event,
                   setCount, sent, micVars, audios, inVars, interrupted>>

\* line 317: ws.send_text(asr_stop_message())
ReadStopSend ==
    /\ sendPc = "rs_stop"
    /\ IF CanSend
       THEN Send(StopMsg) /\ sendPc' = "rs_pause"
       ELSE sent' = sent /\ sendPc' = "crashed"
    /\ UNCHANGED <<argVars, offsetVars, chunkVars, mainPc, recvPc, keep_running, conn, finish_event,
                   setCount, micVars, fileVars, inVars, interrupted>>

\* line 318: time.sleep(1)
ReadPause ==
    /\ sendPc = "rs_pause"
    /\ sendPc' = "rs_start"
    /\ UNCHANGED <<argVars, offsetVars, chunkVars, mainPc, recvPc, keep_running, conn, finish_event,
                   setCount, sent, micVars, fileVars, inVars, interrupted>>

\* line 319: ws.send_text(asr_start_message(args)), then the next segment
ReadStartSend ==
    /\ sendPc = "rs_start"
    /\ IF CanSend
       THEN /\ Send(StartMsg("read_and_send"))
            /\ sendPc' = AfterSegment
            /\ seg' = IF seg < Len(audios) THEN seg + 1 ELSE seg
            /\ idx' = IF seg < Len(audios) THEN 0 ELSE idx
       ELSE /\ sent' = sent
            /\ sendPc' = "crashed"
            /\ UNCHANGED <<seg, idx>>
    /\ UNCHANGED <<argVars, offsetVars, chunkVars, mainPc, recvPc, keep_running, conn, finish_event,
                   setCount, micVars, audios, inVars, interrupted>>

\* line 320: ws.close()
ReadClose ==
    /\ sendPc = "rs_close"
    /\ WsClose
    /\ sendPc' = "done"
    /\ UNCHANGED <<argVars, offsetVars, chunkVars, mainPc, recvPc, finish_event, setCount, sent,
                   micVars, fileVars, inVars, interrupted>>

ReadNext ==
    \/ ReadDecode
    \/ ReadChunkCheck
    \/ ReadChunkSend
    \/ ReadChunkSleep
    \/ ReadStopCheck
    \/ ReadStopSend
    \/ ReadPause
    \/ ReadStartSend
    \/ ReadClose

\* ------------------------------------------------------- main.py (asyncio)
\* main.py runs three coroutines on one event loop: main (lines 147-164), the
\* send task (record_and_send or read_and_send) and the receive task
\* (receive_responses). They are written in the variables of the session
\* model: mainPc, sendPc and recvPc are their positions, idx counts the
\* chunks or frames sent, encoding is the send task's parameter `encoding`.
\* main.py has no finish_event, no keep_running and writes no file.
unusedByMain == <<argVars, offsetVars, chunkVars, keep_running, finish_event, setCount,
                  audio_buffer, wavfiles, seg, errors>>

\* main.py asr_start_message, lines 51-62; its encoding names end in "le"
\* (f32le), written here without the suffix
AioStartMsg ==
    [kind |-> "start", by |-> "main", seg |-> 0, idx |-> 0, b64 |-> FALSE,
     encoding |-> cli_encoding,
     request_id |-> IF cli_request_id # "" THEN cli_request_id ELSE "absent"]

\* The state when asyncio.run(main()) is called (line 168).
AioInit ==
    /\ program = "main"
    /\ sample_rate = DefaultSampleRate
    /\ ChunkIdle
    /\ OffsetIdle
    /\ source \in {"mic", "file"}
    /\ base64 \in BOOLEAN
    /\ single_utterance = FALSE
    /\ segments = <<>>
    /\ cli_request_id \in {"", "rid"}
    /\ cli_encoding \in Encodings
    /\ encoding = cli_encoding
    /\ warned = FALSE
    /\ received = <<>>
    /\ audios = <<>>
    /\ mainPc = "aio_connect"
    /\ recvPc = "idle"
    /\ sendPc = "idle"
    /\ keep_running = FALSE
    /\ conn = "none"
    /\ finish_event = FALSE
    /\ setCount = 0
    /\ sent = <<>>
    /\ audio_buffer = <<>>
    /\ wavfiles = <<>>
    /\ seg = 0
    /\ idx = 0
    /\ printed = <<>>
    /\ errors = 0
    /\ interrupted = "none"

\* line 154: websockets.connect(args.ws_url); a failure raises out of main
\* and is printed (lines 169-170)
AioConnect ==
    /\ mainPc = "aio_connect"
    /\ \/ conn' = "open" /\ mainPc' = "aio_start"
       \/ conn' = "failed" /\ mainPc' = "done"
    /\ UNCHANGED <<unusedByMain, audios, recvPc, sendPc, sent, encoding, warned,
                   idx, printed, received, interrupted>>

\* line 155: await ws.send(start_message); on a closed connection it raises
\* and main leaves the `async with`
AioStart ==
    /\ mainPc = "aio_start"
    /\ IF CanSend
       THEN Send(AioStartMsg) /\ mainPc' = "aio_gather"
       ELSE sent' = sent /\ mainPc' = "aio_exit"
    /\ UNCHANGED <<unusedByMain, audios, recvPc, sendPc, conn, encoding, warned,
                   idx, printed, received, interrupted>>

\* lines 156-164: create the two coroutines and hand them to asyncio.gather
AioGather ==
    /\ mainPc = "aio_gather"
    /\ mainPc' = "aio_wait"
    /\ sendPc' = IF source = "mic" THEN "aio_rec_open" ELSE "aio_read"
    /\ recvPc' = "aio_recv"
    /\ UNCHANGED <<unusedByMain, audios, conn, sent, encoding, warned, idx,
                   printed, received, interrupted>>

\* line 164: await asyncio.gather(...) returns when both tasks have returned,
\* and raises as soon as one of them has raised or main has been cancelled
AioWait ==
    /\ mainPc = "aio_wait"
    /\ \/ sendPc = "done" /\ recvPc = "done"
       \/ sendPc \in {"failed", "cancelled"}
       \/ interrupted = "cancelled"
    /\ mainPc' = "aio_exit"
    /\ UNCHANGED <<unusedByMain, audios, recvPc, sendPc, conn, sent, encoding,
                   warned, idx, printed, received, interrupted>>

\* The end of `async with` (line 154) closes the connection, and asyncio.run
\* cancels the tasks still pending; a send task cancelled in its capture
\* loop runs its finally block.
AioExit ==
    /\ mainPc = "aio_exit"
    /\ conn' = IF conn = "open" THEN "closed_local" ELSE conn
    /\ mainPc' = "done"
    /\ recvPc' = IF recvPc = "aio_recv" THEN "cancelled" ELSE recvPc
    /\ sendPc' = CASE sendPc \in {"aio_read", "aio_chunk", "aio_stop", "aio_rec_open"}
                        -> "cancelled"
                   [] sendPc \in {"aio_rec_read", "aio_rec_sleep"} -> "aio_finally"
                   [] OTHER -> sendPc
    /\ UNCHANGED <<unusedByMain, audios, sent, encoding, warned, idx, printed,
                   received, interrupted>>

AioMainNext ==
    \/ AioConnect
    \/ AioStart
    \/ AioGather
    \/ AioWait
    \/ AioExit

\* lines 142-144: async for message in ws: print(message), with no decoding
AioReceive(m) ==
    /\ recvPc = "aio_recv"
    /\ conn = "open"
    /\ Len(received) < MaxMsgs
    /\ printed' = Append(printed, m)
    /\ received' = Append(received, m.ok)
    /\ UNCHANGED <<unusedByMain, audios, mainPc, recvPc, sendPc, conn, sent,
                   encoding, warned, idx, interrupted>>

\* lines 142-144: the iteration ends when the connection is closed
AioReceiveEnd ==
    /\ recvPc = "aio_recv"
    /\ conn # "open"
    /\ recvPc' = "done"
    /\ UNCHANGED <<unusedByMain, audios, mainPc, sendPc, conn, sent, encoding,
                   warned, idx, printed, received, interrupted>>

\* main.py lines 82-97: choose the capture format (f64 is replaced by f32 with
\* a message on stderr) and open the input stream, which can raise OSError
AioRecordOpen ==
    /\ sendPc = "aio_rec_open"
    /\ sendPc' \in {"aio_rec_read", "failed"}
    /\ IF encoding \in {"s16", "s32", "f32"}
       THEN encoding' = encoding /\ warned' = warned
       ELSE encoding' = "f32" /\ warned' = TRUE
    /\ UNCHANGED <<unusedByMain, audios, mainPc, recvPc, conn, sent, idx, printed,
                   received, interrupted>>

\* A faulty capture loop that ends when the device has no more frames.
AioRecordSend_EndOfStream ==
    /\ sendPc = "aio_rec_read"
    /\ IF idx >= MaxFrames
       THEN sent' = sent /\ idx' = idx /\ sendPc' = "aio_finally"
       ELSE IF CanSend
            THEN Send(AudioMsg(0, idx + 1)) /\ idx' = idx + 1 /\ sendPc' = "aio_rec_sleep"
            ELSE sent' = sent /\ idx' = idx /\ sendPc' = "aio_finally"
    /\ UNCHANGED <<unusedByMain, audios, mainPc, recvPc, conn, encoding, warned,
                   printed, received, interrupted>>

\* main.py lines 101-106: while True: read a frame and send it; a closed
\* connection raises and the finally block runs. The capture never ends by
\* itself; the model stops asking for frames after MaxFrames of them.
AioRecordSend ==
    /\ sendPc = "aio_rec_read"
    /\ idx < MaxFrames
    /\ IF CanSend
       THEN Send(AudioMsg(0, idx + 1)) /\ idx' = idx + 1 /\ sendPc' = "aio_rec_sleep"
       ELSE sent' = sent /\ idx' = idx /\ sendPc' = "aio_finally"
    /\ UNCHANGED <<unusedByMain, audios, mainPc, recvPc, conn, encoding, warned,
                   printed, received, interrupted>>

\* main.py line 109: await asyncio.sleep(0)
AioRecordSleep ==
    /\ sendPc = "aio_rec_sleep"
    /\ sendPc' = "aio_rec_read"
    /\ UNCHANGED <<unusedByMain, audios, mainPc, recvPc, conn, sent, encoding,
                   warned, idx, printed, received, interrupted>>

\* main.py lines 112-117 (finally): close the stream and send the stop
\* message. The task then returns (KeyboardInterrupt caught at line 110), or
\* ends cancelled, or ends with the exception that left the loop or that the
\* stop send raised.
AioRecordFinally ==
    /\ sendPc = "aio_finally"
    /\ IF CanSend
       THEN /\ Send(StopMsg)
            /\ sendPc' = CASE interrupted = "caught" -> "done"
                            [] interrupted = "cancelled" -> "cancelled"
                            [] OTHER -> "failed"
       ELSE /\ sent' = sent
            /\ sendPc' = IF interrupted = "cancelled" THEN "cancelled" ELSE "failed"
    /\ UNCHANGED <<unusedByMain, audios, mainPc, recvPc, conn, encoding, warned,
                   idx, printed, received, interrupted>>

\* main.py lines 121-129: decode the file into chunks; when read_audio fails
\* the task calls exit(-1), which ends the event loop
AioRead ==
    /\ sendPc = "aio_read"
    /\ \/ /\ audios' \in {<<n>> : n \in 0..MaxChunks}
          /\ sendPc' = "aio_chunk"
          /\ mainPc' = mainPc
       \/ /\ audios' = audios
          /\ sendPc' = "exited"
          /\ mainPc' = "aio_exit"
    /\ UNCHANGED <<unusedByMain, recvPc, conn, sent, encoding, warned, idx,
                   printed, received, interrupted>>

\* main.py lines 131-136: send the next chunk, if any; a closed connection
\* raises out of the task
AioChunkSend ==
    /\ sendPc = "aio_chunk"
    /\ IF idx < audios[1]
       THEN IF CanSend
            THEN Send(AudioMsg(1, idx + 1)) /\ idx' = idx + 1 /\ sendPc' = sendPc
            ELSE sent' = sent /\ idx' = idx /\ sendPc' = "failed"
       ELSE sent' = sent /\ idx' = idx /\ sendPc' = "aio_stop"
    /\ UNCHANGED <<unusedByMain, audios, mainPc, recvPc, conn, encoding, warned,
                   printed, received, interrupted>>

\* main.py lines 138-139: send the stop message and return
AioStopSend ==
    /\ sendPc = "aio_stop"
    /\ IF CanSend
       THEN Send(StopMsg) /\ sendPc' = "done"
       ELSE sent' = sent /\ sendPc' = "failed"
    /\ UNCHANGED <<unusedByMain, audios, mainPc, recvPc, conn, encoding, warned,
                   idx, printed, received, interrupted>>

AioSendNext ==
    \/ AioRecordOpen
    \/ AioRecordSend
    \/ AioRecordSleep
    \/ AioRecordFinally
    \/ AioRead
    \/ AioChunkSend
    \/ AioStopSend

\* The user presses Ctrl-C while gather is awaited. In the capture loop the
\* KeyboardInterrupt is caught at line 110, or (asyncio.run's SIGINT handler)
\* main is cancelled and the send task with it; either way the finally block
\* runs. Elsewhere main is cancelled.
AioInterrupt ==
    /\ interrupted = "none"
    /\ mainPc = "aio_wait"
    /\ IF sendPc \in {"aio_rec_read", "aio_rec_sleep"}
       THEN interrupted' \in {"caught", "cancelled"} /\ sendPc' = "aio_finally"
       ELSE interrupted' = "cancelled" /\ sendPc' = sendPc
    /\ UNCHANGED <<unusedByMain, audios, mainPc, recvPc, conn, sent, encoding,
                   warned, idx, printed, received>>

\* The steps of main.py's own coroutines.
AioProgramNext ==
    \/ AioMainNext
    \/ AioSendNext
    \/ AioReceiveEnd

AioNext ==
    \/ AioProgramNext
    \/ \E m \in InMsgs : AioReceive(m)
    \/ PeerClose
    \/ AioInterrupt

AioSpec == AioInit /\ [][AioNext]_vars

\* ------------------------------------------- chunking of one segment's bytes
\* int(args.encoding[1:]) (line 296); main.py's --bit-depth equals it (line 150)
BitsOf(e) == CASE e = "s16" -> 16 [] e \in {"s32", "f32"} -> 32 [] e = "f64" -> 64

\* streaming_client.py lines 295-296: int(0.1 * sample_rate * bits // 8), that is
\* the floor of sample_rate * bits / 80 (100 ms of audio);
\* main.py line 128: 2 * sample_rate * (bit_depth // 8) (2 s of audio)
ChunkSize ==
    IF program = "streaming_client"
    THEN (sample_rate * BitsOf(encoding)) \div 80
    ELSE 2 * sample_rate * (BitsOf(encoding) \div 8)

\* A faulty slice that takes the byte at its end index too.
Slice_EndInclusive(s, a, b) ==
    SubSeq(s, a + 1, IF b + 1 < Len(s) THEN b + 1 ELSE Len(s))

\* Python's s[a:b] for 0 <= a <= b: the items at the 0-based positions a..b-1,
\* cut off at the end of s
Slice(s, a, b) == SubSeq(s, a + 1, IF b < Len(s) THEN b ELSE Len(s))

\* Sample rates small enough that a buffer of MaxBytes bytes spans several
\* chunks of either client.
ChunkRates == {1, 5, 10}

\* One segment's buffer of any length up to MaxBytes and any chunk size the
\* two clients compute; byte k of the buffer is written k, so that a byte
\* lost, repeated or moved shows. No session runs.
ChunkInit ==
    /\ program \in {"streaming_client", "main"}
    /\ sample_rate \in ChunkRates
    /\ cli_encoding \in Encodings
    /\ encoding = cli_encoding
    /\ audio \in {[k \in 1..n |-> k] : n \in 0..MaxBytes}
    /\ chunk_size = 0
    /\ chunk_i = 0
    /\ chunks_out = <<>>
    /\ OffsetIdle
    /\ sendPc = "chunk_size"
    /\ source = "file"
    /\ base64 = FALSE
    /\ single_utterance = FALSE
    /\ segments = <<>>
    /\ cli_request_id = ""
    /\ warned = FALSE
    /\ received = <<>>
    /\ audios = <<>>
    /\ mainPc = "off"
    /\ recvPc = "off"
    /\ keep_running = FALSE
    /\ conn = "open"
    /\ finish_event = FALSE
    /\ setCount = 0
    /\ sent = <<>>
    /\ audio_buffer = <<>>
    /\ wavfiles = <<>>
    /\ seg = 0
    /\ idx = 0
    /\ printed = <<>>
    /\ errors = 0
    /\ interrupted = "none"

\* streaming_client.py lines 295-302 / main.py lines 128-129: compute
\* chunk_size and build the generator; range() raises ValueError for step 0
ChunkSetup ==
    /\ sendPc = "chunk_size"
    /\ chunk_size' = ChunkSize
    /\ sendPc' = IF ChunkSize = 0 THEN "crashed" ELSE "chunk_next"
    /\ UNCHANGED <<argVars, offsetVars, audio, chunk_i, chunks_out, mainPc, recvPc,
                   keep_running, conn, finish_event, setCount, sent, micVars,
                   fileVars, inVars, interrupted>>

\* streaming_client.py lines 299-300, 304-314 / main.py lines 129-136: the
\* generator yields audio[i : i + chunk_size] for the next i of
\* range(0, len(audio), chunk_size), and the chunk is sent
ChunkSend ==
    /\ sendPc = "chunk_next"
    /\ chunk_i < Len(audio)
    /\ chunks_out' = Append(chunks_out, Slice(audio, chunk_i, chunk_i + chunk_size))
    /\ chunk_i' = chunk_i + chunk_size
    /\ UNCHANGED <<argVars, offsetVars, audio, chunk_size, mainPc, recvPc, sendPc,
                   keep_running, conn, finish_event, setCount, sent, micVars,
                   fileVars, inVars, interrupted>>

\* streaming_client.py line 317 / main.py lines 138-139: the range is
\* exhausted and the stop message is sent
ChunkStop ==
    /\ sendPc = "chunk_next"
    /\ chunk_i >= Len(audio)
    /\ sendPc' = "chunk_stop"
    /\ UNCHANGED <<argVars, offsetVars, chunkVars, mainPc, recvPc, keep_running, conn,
                   finish_event, setCount, sent, micVars, fileVars, inVars,
                   interrupted>>

ChunkNext ==
    \/ ChunkSetup
    \/ ChunkSend
    \/ ChunkStop

ChunkSpec == ChunkInit /\ [][ChunkNext]_vars

\* ------------------------------------------- byte offsets of one segment
\* lines 283-291: int(time_ms / 1000 * sample_rate * int(encoding[1:]) // 8).
\* The floor division by 8 comes last and int() of its result changes
\* nothing, so the offset is the floor of time_ms * sample_rate * bits / 8000.
\* (Python evaluates the product in floating point; for the boundaries and
\* sample rates drawn below it gives this floor exactly.)
ByteOffset(time_ms) == (time_ms * sample_rate * BitsOf(encoding)) \div 8000

\* Sample rates with whole and with fractional bytes per millisecond.
OffsetRates == {8000, 11025, 16000}

\* One segment (start_time_ms, end_time_ms) as read_snsd_json returns it, any
\* of the sample rates and encodings. No session runs.
OffsetInit ==
    /\ program = "streaming_client"
    /\ sample_rate \in OffsetRates
    /\ cli_encoding \in Encodings
    /\ encoding = cli_encoding
    /\ start_time_ms \in 0..MaxMs
    /\ end_time_ms \in 0..MaxMs
    /\ idx_start = 0
    /\ idx_end = 0
    /\ ChunkIdle
    /\ sendPc = "offsets"
    /\ source = "file"
    /\ base64 = FALSE
    /\ single_utterance = FALSE
    /\ segments = <<>>
    /\ cli_request_id = ""
    /\ warned = FALSE
    /\ received = <<>>
    /\ audios = <<>>
    /\ mainPc = "off"
    /\ recvPc = "off"
    /\ keep_running = FALSE
    /\ conn = "open"
    /\ finish_event = FALSE
    /\ setCount = 0
    /\ sent = <<>>
    /\ audio_buffer = <<>>
    /\ wavfiles = <<>>
    /\ seg = 0
    /\ idx = 0
    /\ printed = <<>>
    /\ errors = 0
    /\ interrupted = "none"

\* lines 280-292: the two offsets of the segment, then the slice
OffsetCompute ==
    /\ sendPc = "offsets"
    /\ idx_start' = ByteOffset(start_time_ms)
    /\ idx_end' = ByteOffset(end_time_ms)
    /\ sendPc' = "sliced"
    /\ UNCHANGED <<argVars, chunkVars, start_time_ms, end_time_ms, mainPc, recvPc,
                   keep_running, conn, finish_event, setCount, sent, micVars,
                   fileVars, inVars, interrupted>>

OffsetNext == OffsetCompute

OffsetSpec == OffsetInit /\ [][OffsetNext]_vars

\* ------------------------------------------------------------ specification
\* The steps of the program's own threads.
ProgramNext ==
    \/ MainNext
    \/ RecvNext
    \/ RecordNext
    \/ ReadNext

Next ==
    \/ ProgramNext
    \/ \E m \in InMsgs : OnMessage(m)
    \/ PeerClose
    \/ Interrupt

\* Sessions started with neither --request-id nor --encoding: both options at
\* their defaults ("" and "f32", handle_args).
DefaultInit == Init /\ cli_request_id = "" /\ cli_encoding = "f32"

Spec == DefaultInit /\ [][Next]_vars

\* Microphone sessions only (and the rejected file path, which starts no send
\* thread): the same program without read_and_send.
MicInit == DefaultInit /\ source # "file"

MicNext ==
    \/ MainNext
    \/ RecvNext
    \/ RecordNext
    \/ \E m \in InMsgs : OnMessage(m)
    \/ PeerClose
    \/ Interrupt

\* The threads are scheduled fairly by the operating system and every blocking
\* call of the send thread returns (stream.read delivers a frame, a send
\* completes or raises); the peer and the user are not obliged to act.
MicFairSpec ==
    /\ MicInit
    /\ [][MicNext]_vars
    /\ WF_vars(MainNext)
    /\ WF_vars(RecvNext)
    /\ WF_vars(RecordNext)

\* Sessions in which the peer sends no result: on_message touches only the
\* result sink, so the outbound flow and the termination signal behave alike.
QuietNext ==
    \/ ProgramNext
    \/ PeerClose
    \/ Interrupt

QuietSpec == DefaultInit /\ [][QuietNext]_vars

\* Sessions with any --request-id and --encoding, binary frames, continuous
\* mode and a silent peer: the options that decide what the start messages
\* carry and how the capture is stored vary, the others are at their defaults.
ArgInit == Init /\ ~base64 /\ ~single_utterance

ArgSpec == ArgInit /\ [][QuietNext]_vars

\* Both clients, with binary frames, continuous mode, a generated request id
\* and a silent peer.
ClientsInit ==
    /\ Init \/ AioInit
    /\ ~base64
    /\ ~single_utterance
    /\ cli_request_id = ""

ClientsNext ==
    \/ QuietNext
    \/ AioProgramNext
    \/ AioInterrupt

ClientsSpec == ClientsInit /\ [][ClientsNext]_vars

\* ------------------------------------------------------------------ helpers
\* The send flow is in the capture loop of record_and_send.
InCapture ==
    sendPc \in {"rec_check", "rec_read", "rec_send", "aio_rec_read", "aio_rec_sleep"}

CountKind(k) == Cardinality({i \in 1..Len(sent) : sent[i].kind = k})

RestartCount == Cardinality({i \in 1..Len(sent) :
                    sent[i].kind = "start" /\ sent[i].by = "read_and_send"})

HasAudio == \E i \in 1..Len(sent) : sent[i].kind = "audio"

\* Every audio message is followed, later, by a stop message.
StopAfterLastAudio ==
    \A i \in 1..Len(sent) :
        sent[i].kind = "audio" => \E j \in (i + 1)..Len(sent) : sent[j].kind = "stop"

\* The messages sent so far are a prefix of (start audio* stop)*.
WellOrdered ==
    \A i \in 1..Len(sent) :
        IF i = 1
        THEN sent[i].kind = "start"
        ELSE CASE sent[i].kind = "start" -> sent[i - 1].kind = "stop"
               [] sent[i].kind = "audio" -> sent[i - 1].kind \in {"start", "audio"}
               [] sent[i].kind = "stop"  -> sent[i - 1].kind \in {"start", "audio"}

IsAudio(m) == m.kind = "audio"

RECURSIVE Concat(_)
\* The concatenation of a sequence of sequences.
Concat(ss) == IF ss = <<>> THEN <<>> ELSE Head(ss) \o Concat(Tail(ss))

\* The frame numbers of the audio messages sent, in send order.
SentFrames ==
    LET a == SelectSeq(sent, IsAudio) IN [i \in 1..Len(a) |-> a[i].idx]

\* x is an integer nearest to n / d (d > 0); at a tie both neighbours are.
IsNearest(x, n, d) == (2 * (x * d - n) <= d) /\ (2 * (n - x * d) <= d)

\* ------------------------------------------------------------------- claims

\* C1: the first message sent on the connection is the start message; no audio
\* message is sent before it. Stated as the claim words it; the send thread
\* can send a frame between the handshake and on_open.
C1_StartFirst == sent # <<>> => sent[1].kind = "start"

\* C2: when the outbound flow has ended and the client has closed a connection
\* that was still open (end of file, user interrupt), every audio message sent
\* is followed by a stop message. Stated as the claim words it, for sessions
\* that began with the start message; record_and_send sends no stop message,
\* and read_and_send sends none once finish_event is set.
C2_StopBeforeClose ==
    (sendPc = "done" /\ conn = "closed_local" /\ HasAudio /\ C1_StartFirst)
        => StopAfterLastAudio

\* C3: at every point the messages sent so far are a prefix of
\* start, audio*, stop, (start, audio*, stop)*. Stated as the claim words it.
C3_MessageOrder == WellOrdered

\* C4: a file session that ran to its end without being terminated has sent as
\* many start messages as it streamed segments: no start follows the stop of
\* the last segment. Stated as the claim words it; line 319 re-sends start
\* after every stop.
C4_StartPerSegment ==
    (source = "file" /\ sendPc = "done" /\ ~finish_event /\ HasAudio)
        => CountKind("start") = Len(audios)

\* C5: in a file session whose messages so far are in order, once
\* finish_event is set read_and_send sends no further start message. Stated
\* as the claim words it; line 319 does not look at finish_event again after
\* the pause of line 318.
C5_NoStartAfterFinish ==
    [][(source = "file" /\ finish_event /\ WellOrdered)
          => RestartCount' = RestartCount]_vars

\* C6: however often and by whichever flow finish_event is set, the captured
\* audio is written at most once, exactly once when record_and_send has
\* finished, and no two stop messages are sent without a start between them.
C6_CleanupOnce ==
    /\ Len(wavfiles) <= 1
    /\ (source = "mic" /\ sendPc \in {"rec_set", "rec_close", "done"})
           => Len(wavfiles) = 1
    /\ \A i, j \in 1..Len(sent) :
           (i < j /\ sent[i].kind = "stop" /\ sent[j].kind = "stop")
               => \E k \in (i + 1)..(j - 1) : sent[k].kind = "start"

\* C6 witness: a microphone session that streamed audio has ended with
\* finish_event set by all three flows (on_close, the interrupt handler,
\* record_and_send) and one file written.
C6_Witness ==
    /\ source = "mic"
    /\ HasAudio
    /\ sendPc = "done"
    /\ interrupted = "handled"
    /\ setCount >= 3
    /\ Len(wavfiles) = 1

\* C7: handling a well-formed result whose is_partial is false sets
\* finish_event in single-utterance mode and leaves it alone otherwise.
\* Stated as the claim words it; on_message only prints.
C7_FinalResultTerminates ==
    [][(\E m \in InMsgs : m.ok /\ ~m.is_partial /\ OnMessage(m))
          => (finish_event' = (finish_event \/ single_utterance))]_vars

\* C8: in a microphone session, once the peer has closed the connection while
\* record_and_send is in its capture loop, finish_event is eventually set, the
\* captured audio is written and record_and_send finishes.
C8_PeerCloseCleanup ==
    (source = "mic" /\ conn = "closed_peer"
        /\ sendPc \in {"rec_check", "rec_read", "rec_send"})
    ~> (finish_event /\ Len(wavfiles) = 1 /\ sendPc = "done")

\* C8 witness: the peer closed mid-stream, a frame was captured whose send
\* failed, and record_and_send has written the file and finished.
C8_Witness ==
    /\ source = "mic"
    /\ conn = "closed_peer"
    /\ HasAudio
    /\ Len(audio_buffer) > CountKind("audio")
    /\ finish_event
    /\ Len(wavfiles) = 1
    /\ sendPc = "done"

\* C9: after an interrupt that main handles (lines 391-393), once the send
\* thread has returned and no thread of the program can take a step any
\* more, the receive thread has terminated too. Stated as the claim words
\* it; a close() that precedes run_forever's socket closes nothing.
C9_InterruptTerminates ==
    (interrupted = "handled" /\ sendPc = "done" /\ ~ENABLED ProgramNext)
        => recvPc = "done"

\* C10: with a file path that does not exist no wire message is ever sent.
\* Stated as the claim words it; the receive thread is started (line 371)
\* before the path is checked (line 379).
C10_NoTrafficOnBadPath == source = "invalid" => sent = <<>>

\* C11 as the claim words it: when a microphone session that sent audio has
\* ended, the frames written to the file are exactly the frames sent, in send
\* order.
\* record_and_send buffers a frame (line 170) before it sends it (lines
\* 171-174), so a frame whose send fails is written without having been sent.
C11_PersistedEqualsSent ==
    (source = "mic" /\ sendPc = "done" /\ Len(wavfiles) = 1 /\ HasAudio)
        => wavfiles[1].frames = SentFrames

\* C11: in a microphone session the file written holds exactly the frames
\* captured, in capture order, and the frames sent are in order a prefix of
\* them that lacks at most the last one (the frame whose send failed): every
\* frame sent is persisted.
C11_SentPrefixOfPersisted ==
    /\ source = "mic" => /\ Len(SentFrames) <= Len(audio_buffer)
                         /\ Len(audio_buffer) <= Len(SentFrames) + 1
                         /\ SentFrames = SubSeq(audio_buffer, 1, Len(SentFrames))
    /\ \A i \in 1..Len(wavfiles) : wavfiles[i].frames = audio_buffer

\* C11 witness: a session ended by a failed send: one frame was sent, a later
\* one was captured but not sent, and both are in the file.
C11_Witness ==
    /\ source = "mic"
    /\ sendPc = "done"
    /\ Len(wavfiles) = 1
    /\ Len(SentFrames) >= 1
    /\ Len(wavfiles[1].frames) = Len(SentFrames) + 1

\* C12: when the chunking of a segment has run to its stop message, the
\* chunks sent, concatenated in send order, are the segment's bytes: every
\* chunk but the last has chunk_size bytes and the last has the remaining
\* 1..chunk_size bytes, so it is short exactly when the length is not a
\* multiple of chunk_size. This holds for the 100 ms chunks of
\* streaming_client.py and the 2 s chunks of main.py.
C12_ChunksReconstruct ==
    sendPc = "chunk_stop" =>
        /\ Concat(chunks_out) = audio
        /\ \A k \in 1..Len(chunks_out) :
               Len(chunks_out[k]) =
                   IF k < Len(chunks_out) \/ Len(audio) % chunk_size = 0
                   THEN chunk_size
                   ELSE Len(audio) % chunk_size

\* C12 witness: a buffer sent as three chunks, the last one short.
C12_Witness ==
    /\ sendPc = "chunk_stop"
    /\ Len(chunks_out) = 3
    /\ Len(audio) % chunk_size # 0
    /\ Len(chunks_out[3]) < chunk_size

\* C13: a file session without active segments that ran to its end without
\* being terminated, its messages in order, has performed exactly one
\* streaming cycle: one start, the chunks of the whole file, one stop. Stated
\* as the claim words it; line 319 sends a second start after the stop.
C13_OneCycleWithoutSegments ==
    (source = "file" /\ segments = <<>> /\ sendPc = "done" /\ ~finish_event
        /\ WellOrdered)
    => /\ CountKind("start") = 1
       /\ CountKind("audio") = MaxChunks
       /\ CountKind("stop") = 1

\* C14: every start message sent carries the session's request_id, the one
\* the output file is named after, whether the caller supplied it or main
\* generated it. Stated as the claim words it; on_open builds its start
\* message from arguments it parses again (line 218), whose request_id is
\* still the empty default when main generated the id.
C14_RequestIdStable ==
    /\ \A i \in 1..Len(sent) :
           sent[i].kind = "start" => sent[i].request_id = request_id
    /\ \A k \in 1..Len(wavfiles) : wavfiles[k].name = request_id

\* C15: finish_event is monotonic: no step of any thread takes it from set
\* to clear.
C15_FinishMonotonic == [][finish_event => finish_event']_vars

\* C15 witness: finish_event has been set by two flows, the session has run
\* to its end, and it is still set.
C15_Witness ==
    /\ finish_event
    /\ setCount >= 2
    /\ mainPc = "done"
    /\ recvPc = "done"
    /\ sendPc = "done"

\* C17: handling a malformed inbound message changes neither finish_event
\* nor the connection nor the position of the receive loop, and a well-formed
\* message handled after a malformed one is decoded and printed: after every
\* step the result sink holds every well-formed message received so far.
C17_MalformedNonFatal ==
    [][/\ (\E m \in InMsgs : ~m.ok /\ OnMessage(m))
            => /\ finish_event' = finish_event
               /\ conn' = conn
               /\ keep_running' = keep_running
               /\ recvPc' = recvPc
       /\ \A m \in InMsgs : (m.ok /\ errors > 0 /\ OnMessage(m))
            => printed' = Append(printed, m)
       /\ Len(printed') = Cardinality({i \in 1..Len(received') : received'[i]})]_vars

\* C17 witness: a malformed message was handled, then a well-formed one, which
\* was printed; the connection is open and finish_event is clear.
C17_Witness ==
    /\ received = <<FALSE, TRUE>>
    /\ errors = 1
    /\ Len(printed) = 1
    /\ conn = "open"
    /\ ~finish_event
    /\ recvPc = "loop"

C18_F64Handling ==
    cli_encoding = "f64" =>
        /\ source = "mic" =>
              /\ (InCapture \/ HasAudio \/ wavfiles # <<>>)
                    => (encoding = "f32" /\ warned)
              /\ \A i \in 1..Len(sent) :
                    sent[i].kind = "audio" => sent[i].encoding = "f32"
              /\ \A k \in 1..Len(wavfiles) : wavfiles[k].dtype = "f32"
        /\ source = "file" =>
              /\ encoding = "f64"
              /\ ~warned
              /\ \A i \in 1..Len(sent) :
                    sent[i].kind \in {"start", "audio"} => sent[i].encoding = "f64"

\* C18 witness: a microphone session asked for f64 has sent a frame and
\* written its file, both f32, with the warning logged.
C18_Witness ==
    /\ cli_encoding = "f64"
    /\ source = "mic"
    /\ warned
    /\ HasAudio
    /\ Len(wavfiles) = 1
    /\ wavfiles[1].dtype = "f32"
    /\ encoding = "f32"

\* C19: a file session that was not interrupted has sent the stop message of
\* its last segment and the peer has not closed the connection; once no
\* step of the client itself is possible any more, the client has closed the
\* connection and both flows have finished. Stated as the claim words it;
\* main.py closes the connection only after receive_responses has returned,
\* which it does only when the peer closes.
C19_ClientClosesAfterLastStop ==
    (/\ source = "file"
     /\ interrupted = "none"
     /\ HasAudio
     /\ CountKind("stop") = Len(audios)
     /\ conn # "closed_peer"
     /\ ~ENABLED (ProgramNext \/ AioProgramNext))
    => (conn = "closed_local" /\ sendPc = "done" /\ recvPc = "done")

\* The send thread ended in read_and_send before `audios` was built: the
\* probe of line 260 raised, or the decode did (lines 321-322).
DecodeFailed ==
    /\ program = "streaming_client"
    /\ source = "file"
    /\ sendPc \in {"crashed", "decode_failed"}
    /\ audios = <<>>

\* C20: when the probe or the decode of the input file has failed, the send
\* thread has sent nothing, and once no thread of the program can take a
\* step any more the connection is not open and the receive thread has
\* terminated. Stated as the claim words it; read_and_send logs the error
\* and returns without ws.close() or finish_event.set().
C20_DecodeFailureAborts ==
    DecodeFailed =>
        /\ \A i \in 1..Len(sent) : sent[i].by = "on_open"
        /\ (interrupted = "none" /\ ~ENABLED ProgramNext)
              => (conn # "open" /\ recvPc = "done")

\* C21: the byte offsets read_and_send slices with are the integers nearest
\* to time_ms * sample_rate * bits / 8000. Stated as the claim words it; the
\* code takes the floor (`// 8` inside int()), which is not the nearest
\* integer when the fraction is above one half.
C21_OffsetIsRounded ==
    sendPc = "sliced" =>
        /\ IsNearest(idx_start, start_time_ms * sample_rate * BitsOf(encoding), 8000)
        /\ IsNearest(idx_end, end_time_ms * sample_rate * BitsOf(encoding), 8000)

\* C22: every audio frame sent after a start message is in the sample
\* encoding that start message declares. Stated as the claim words it; with
\* --encoding f64 a microphone session captures f32 while its start message,
\* built from the arguments as parsed (on_open's second handle_args;
\* main.py line 152), declares f64.
C22_DeclaredEncodingIsSent ==
    \A i, j \in 1..Len(sent) :
        (i < j /\ sent[i].kind = "start" /\ sent[j].kind = "audio")
            => sent[j].encoding = sent[i].encoding

====
